---- MODULE Spec2Model ----
(***************************************************************************)
(* Shutdown / cleanup sequencing of HiveAgent (src/hive_agent/agent.py).   *)
(*                                                                         *)
(* The model is the asyncio event loop the agent runs on (ready queue,     *)
(* one batch of callbacks per iteration, run_until_complete's stop         *)
(* callback, Task.cancel, gather) together with the coroutines of the      *)
(* class: run_server, __cleanup, shutdown_procedures, __signal_handler     *)
(* and run.  Two hosts are covered: entry = "run" is HiveAgent.run(),      *)
(* whose root task is run_server(); entry = "direct" is a caller that      *)
(* drives the public coroutine shutdown_procedures() as the root task.     *)
(*                                                                         *)
(* Python semantics assumed: CancelledError is a BaseException (3.8+); a   *)
(* signal handler installed with signal.signal runs in the main thread     *)
(* between two callbacks of the loop.  Definitions marked "faulty variant" *)
(* are not part of the model: each is a plausible slip in the code, used   *)
(* to show that a property depends on the definition it would replace.     *)
(***************************************************************************)
EXTENDS Naturals, Sequences, FiniteSets, TLC

MaxTasks == 3       \* tasks ever created: the root task, the N tasks outstanding at
                    \* start, the shutdown tasks of delivered signals, spawned tasks

Signals    == {"SIGINT", "SIGTERM"}
Behaviours == {"clean", "raises", "slow"}   \* a task's reaction to CancelledError
Root       == 1                             \* the task given to run_until_complete

VARIABLES
  entry,           \* "run" | "direct"
  tasks,           \* sequence of task records, index = task id (creation order)
  ready,           \* the loop's FIFO of scheduled callbacks
  ntodo,           \* callbacks left in the current iteration (0 = between iterations)
  loop,            \* "running" | "stopped"
  stopping,        \* loop.stop() has been called
  shutdown_event,  \* self.shutdown_event
  db_session,      \* "absent" | "open" | "closing" | "closed" | "close_failed" |
                   \* "close_cancelled" | "closed_cancelled" (cancelled, yet released)
  serve,           \* "idle" | "running" | "returned" | "raised" | "cancelled"
  cleanupCalls,    \* invocations of __cleanup
  cleanupLogged,   \* times "cleanup process completed" was logged
  closeCalls,      \* invocations of db_session.close()
  cleanupOutcome,  \* "none" | "running" | "returned" | "cancelled" | "raised"
  logged,          \* set of the other log lines emitted
  signals,         \* signal handler invocations
  runResult        \* "none" | "returned" | "raised": how run() ended

vars == <<entry, tasks, ready, ntodo, loop, stopping, shutdown_event, db_session,
          serve, cleanupCalls, cleanupLogged, closeCalls, cleanupOutcome, logged,
          signals, runResult>>

Terminal(st) == st \in {"completed", "cancelled", "failed"}

Range(s) == {s[i] : i \in 1..Len(s)}

Orders(S) == {f \in [1..Cardinality(S) -> S] : \A i, j \in 1..Cardinality(S) : f[i] = f[j] => i = j}

NewTask(kind, pc, waiter) ==
  [kind |-> kind, st |-> "pending", pc |-> pc, must_cancel |-> FALSE,
   waiter |-> waiter, asked |-> FALSE, pend |-> "none",
   children |-> <<>>, gleft |-> {}, gst |-> "none", gcr |-> FALSE]

StepH(t)   == [h |-> "step", t |-> t, c |-> 0]
StopH      == [h |-> "stop", t |-> 0, c |-> 0]
GcbH(s, c) == [h |-> "gcb", t |-> s, c |-> c]

\* The part of the state a callback can change, as one record.
Ctx ==
  [T |-> tasks, R |-> ready, ev |-> shutdown_event, db |-> db_session, sv |-> serve,
   cc |-> cleanupCalls, cl |-> cleanupLogged, cx |-> closeCalls, co |-> cleanupOutcome,
   lg |-> logged]

Commit(x) ==
  /\ tasks' = x.T
  /\ ready' = x.R
  /\ shutdown_event' = x.ev
  /\ db_session' = x.db
  /\ serve' = x.sv
  /\ cleanupCalls' = x.cc
  /\ cleanupLogged' = x.cl
  /\ closeCalls' = x.cx
  /\ cleanupOutcome' = x.co
  /\ logged' = x.lg

(***************************************************************************)
(* asyncio primitives                                                      *)
(***************************************************************************)

\* Task.cancel() and, for a task awaiting a gather, _GatheringFuture.cancel():
\* the request is forwarded to every child.  A pending awaited future is
\* cancelled and the task's wakeup scheduled; otherwise _must_cancel is set.
RECURSIVE TaskCancel(_, _, _)
RECURSIVE CancelAll(_, _, _)
TaskCancel(T, R, t) ==
  IF Terminal(T[t].st) THEN [T |-> T, R |-> R, ret |-> FALSE]
  ELSE
    LET T1 == [T EXCEPT ![t].asked = TRUE] IN
    IF T[t].waiter = "pending"
    THEN [T |-> [T1 EXCEPT ![t].waiter = "cancelled"], R |-> Append(R, StepH(t)), ret |-> TRUE]
    ELSE IF T[t].waiter = "gather" /\ T[t].gst = "pending"
    THEN LET r == CancelAll(T1, R, T[t].children) IN
         IF r.ret
         THEN [T |-> [r.T EXCEPT ![t].gcr = TRUE], R |-> r.R, ret |-> TRUE]
         ELSE [T |-> [r.T EXCEPT ![t].must_cancel = TRUE], R |-> r.R, ret |-> TRUE]
    ELSE [T |-> [T1 EXCEPT ![t].must_cancel = TRUE], R |-> R, ret |-> TRUE]

\* [task.cancel() for task in tasks], in list order.
CancelAll(T, R, ts) ==
  IF ts = <<>> THEN [T |-> T, R |-> R, ret |-> FALSE]
  ELSE LET a == TaskCancel(T, R, Head(ts))
           b == CancelAll(a.T, a.R, Tail(ts))
       IN [T |-> b.T, R |-> b.R, ret |-> a.ret \/ b.ret]

Ids(T) == [i \in 1..Len(T) |-> i]

\* The gathers that registered a done-callback on task t, in registration order.
Gatherers(T, t) ==
  SelectSeq(Ids(T), LAMBDA s : T[s].gst = "pending" /\ t \in T[s].gleft)

GcbHandles(T, t) == [i \in 1..Len(Gatherers(T, t)) |-> GcbH(Gatherers(T, t)[i], t)]

\* A task reaches a terminal state: its done-callbacks are scheduled in the
\* order they were added (run_until_complete's first, on the root task).
Finish(x, t, st) ==
  [x EXCEPT !.T = [x.T EXCEPT ![t].st = st, ![t].pc = "done", ![t].waiter = "none",
                              ![t].must_cancel = FALSE],
            !.R = x.R \o (IF t = Root THEN <<StopH>> ELSE <<>>) \o GcbHandles(x.T, t)]

\* A step is entered with a CancelledError to throw into the coroutine.
Cancelling(T, t) == T[t].must_cancel \/ T[t].waiter = "cancelled"

\* gather(..., return_exceptions=True): the outer future resolves when every
\* child has finished ...
\* (faulty variant: resolves with the first child)
GatherSettledFirst(left) == TRUE
GatherSettled(left) == left = {}

\* ... with the list of results, children's exceptions included, unless the
\* gather itself was asked to cancel.
\* (faulty variant: return_exceptions=False)
GatherResultRaising(creq, anyFailed) ==
  IF creq THEN "cancelled" ELSE IF anyFailed THEN "error" ELSE "result"
GatherResult(creq, anyFailed) == IF creq THEN "cancelled" ELSE "result"

AnyFailed(T, s) == \E c \in Range(T[s].children) : T[c].st = "failed"

\* gather's _done_callback for child c of the gather awaited by task s.
GatherDoneCallback(x, s, c) ==
  IF x.T[s].gst # "pending" THEN x
  ELSE
    LET left == x.T[s].gleft \ {c} IN
    IF GatherSettled(left)
    THEN [x EXCEPT !.T = [x.T EXCEPT ![s].gleft = left,
                                     ![s].gst = GatherResult(x.T[s].gcr, AnyFailed(x.T, s))],
                   !.R = Append(x.R, StepH(s))]
    ELSE [x EXCEPT !.T = [x.T EXCEPT ![s].gleft = left]]

(***************************************************************************)
(* The coroutines of HiveAgent                                             *)
(***************************************************************************)

Exc(T, t) ==    \* what the await the task is suspended on delivers
  IF Cancelling(T, t) THEN "cancelled" ELSE IF T[t].waiter = "failed" THEN "error" ELSE "none"

Resumed(x, t) == [x EXCEPT !.T = [x.T EXCEPT ![t].must_cancel = FALSE, ![t].waiter = "none"]]

\* `except Exception`: CancelledError derives from BaseException and is not caught.
\* (faulty variant: no handler)
ExceptNothing(exc) == FALSE
ExceptException(exc) == exc = "error"

\* hasattr(self, "db_session")
\* (faulty variant: the attribute is looked up under another name)
HasAttrNever(db) == FALSE
HasAttr(db) == db # "absent"

\* __cleanup from its `except`/`finally` on: exc is what the try body raised.
CleanupExit(x, exc) ==
  LET caught == exc # "none" /\ ExceptException(exc) IN
  [x EXCEPT !.lg = IF caught THEN @ \cup {"error during cleanup"} ELSE @,
            !.cl = @ + 1,
            !.co = IF exc = "none" \/ caught THEN "returned"
                   ELSE IF exc = "cancelled" THEN "cancelled" ELSE "raised"]

\* __cleanup from its start to the end, or to its suspension in close().
\* cr is what db_session.close() does: "ok", "raise" or "suspend".
Cleanup(x, t, cr) ==
  LET x1 == [x EXCEPT !.cc = @ + 1, !.co = "running"] IN
  IF ~HasAttr(x.db) THEN CleanupExit(x1, "none")
  ELSE
    LET x2 == [x1 EXCEPT !.cx = @ + 1] IN
    CASE cr = "suspend" ->
           [x2 EXCEPT !.db = "closing",
                      !.T = [x2.T EXCEPT ![t].pc = "closing", ![t].waiter = "pending"]]
      [] cr = "ok" ->
           CleanupExit([x2 EXCEPT !.db = "closed", !.lg = @ \cup {"database connection closed"}],
                       "none")
      [] OTHER -> CleanupExit([x2 EXCEPT !.db = "close_failed"], "error")

\* close() resumes in a suspended __cleanup; rel: a cancelled close() may or
\* may not have released the handle.
CleanupResume(x, t, rel) ==
  LET exc == Exc(x.T, t)
      x0  == Resumed(x, t)
  IN CASE exc = "none" ->
            CleanupExit([x0 EXCEPT !.db = "closed", !.lg = @ \cup {"database connection closed"}],
                        "none")
       [] exc = "error" -> CleanupExit([x0 EXCEPT !.db = "close_failed"], "error")
       [] OTHER -> CleanupExit([x0 EXCEPT !.db = IF rel THEN "closed_cancelled"
                                                    ELSE "close_cancelled"],
                               "cancelled")

\* run_server's `finally: await self.__cleanup()`
\* (faulty variant: cleanup called at the end of the try body)
FinallyOnlyOnSuccess(x, t, cr) == IF x.sv = "returned" THEN Cleanup(x, t, cr) ELSE x
Finally(x, t, cr) == Cleanup(x, t, cr)

\* run_server ends: an exception out of __cleanup, else the one pending over
\* the finally block, else a normal return.
RunServerExit(x, t) ==
  LET exc == IF x.co = "raised" THEN "error"
             ELSE IF x.co = "cancelled" THEN "cancelled" ELSE x.T[t].pend
  IN Finish(x, t, IF exc = "none" THEN "completed"
                  ELSE IF exc = "cancelled" THEN "cancelled" ELSE "failed")

\* run_server once `await server.serve()` has ended with exc.
AfterServe(x, t, exc, cr) ==
  LET caught == exc # "none" /\ ExceptException(exc)
      x1 == [x EXCEPT !.sv = IF exc = "none" THEN "returned"
                             ELSE IF exc = "error" THEN "raised" ELSE "cancelled",
                      !.lg = IF caught THEN @ \cup {"unexpected error while running the server"}
                             ELSE @,
                      !.T = [x.T EXCEPT ![t].pend = IF caught THEN "none" ELSE exc]]
      x2 == Finally(x1, t, cr)
  IN IF x2.T[t].pc = "closing" THEN x2 ELSE RunServerExit(x2, t)

\* One step of the task running run_server.  so: server.serve() suspends or
\* raises at once.
RunServerStep(x, t, so, cr, rel) ==
  CASE x.T[t].pc = "start" ->
         IF x.T[t].must_cancel THEN Finish(x, t, "cancelled")
         ELSE IF so = "suspend"
         THEN [x EXCEPT !.sv = "running",
                        !.T = [x.T EXCEPT ![t].pc = "serving", ![t].waiter = "pending"]]
         ELSE AfterServe(x, t, "error", cr)
    [] x.T[t].pc = "serving" -> AfterServe(Resumed(x, t), t, Exc(x.T, t), cr)
    [] OTHER -> RunServerExit(CleanupResume(x, t, rel), t)

\* tasks = [t for t in asyncio.all_tasks() if t is not asyncio.current_task()]
\* (faulty variant: the current task is not filtered out)
EnumerateWithSelf(T, self) == {t \in 1..Len(T) : ~Terminal(T[t].st)}
Enumerate(T, self) == {t \in 1..Len(T) : ~Terminal(T[t].st) /\ t # self}

\* self.shutdown_event.set() and the log line after it
SetEvent(x) == [x EXCEPT !.ev = TRUE, !.lg = @ \cup {"all tasks have been cancelled or completed"}]

\* shutdown_procedures up to `await asyncio.gather(...)`; order is the list
\* built from the task set.  gather() of no tasks is already done.
\* (faulty variant: the gather is not awaited)
ShutdownStartNoWait(x, s, order) ==
  IF x.T[s].must_cancel THEN Finish(x, s, "cancelled")
  ELSE
    LET c == CancelAll(x.T, x.R, order) IN
    Finish(SetEvent([x EXCEPT !.R = c.R, !.T = [c.T EXCEPT ![s].children = order]]),
           s, "completed")
ShutdownStart(x, s, order) ==
  IF x.T[s].must_cancel THEN Finish(x, s, "cancelled")
  ELSE
    LET c == CancelAll(x.T, x.R, order) IN
    IF order = <<>> THEN Finish(SetEvent(x), s, "completed")
    ELSE [x EXCEPT !.R = c.R,
                   !.T = [c.T EXCEPT ![s].pc = "waiting", ![s].waiter = "gather",
                                     ![s].children = order, ![s].gleft = Range(order),
                                     ![s].gst = "pending"]]

\* shutdown_procedures resumes from the gather: a CancelledError delivered by
\* the await ends the coroutine before the event is set.
\* (faulty variant: the CancelledError is swallowed)
ShutdownResumeSwallowing(x, s) == Finish(SetEvent(x), s, "completed")
ShutdownResume(x, s) ==
  LET g == x.T[s].gst IN
  IF x.T[s].must_cancel \/ g = "cancelled" THEN Finish(x, s, "cancelled")
  ELSE IF g = "error" THEN Finish(x, s, "failed")
  ELSE Finish(SetEvent(x), s, "completed")

\* One step of any other task; beh is how its coroutine treats CancelledError:
\* it lets it through, raises another error, or awaits once more before it ends.
WorkerStep(x, t, beh) ==
  CASE x.T[t].pc = "start" ->
         IF x.T[t].must_cancel THEN Finish(x, t, "cancelled")
         ELSE [x EXCEPT !.T = [x.T EXCEPT ![t].pc = "waiting", ![t].waiter = "pending"]]
    [] x.T[t].pc = "waiting" ->
         IF Cancelling(x.T, t)
         THEN CASE beh = "clean"  -> Finish(x, t, "cancelled")
                [] beh = "raises" -> Finish(x, t, "failed")
                [] OTHER -> [x EXCEPT !.T = [x.T EXCEPT ![t].pc = "cancelling",
                                                        ![t].waiter = "pending",
                                                        ![t].must_cancel = FALSE]]
         ELSE Finish(x, t, IF x.T[t].waiter = "failed" THEN "failed" ELSE "completed")
    [] OTHER -> Finish(x, t, "cancelled")

\* __signal_handler: log the signal, asyncio.create_task(self.shutdown_procedures())
\* (faulty variant: the handler cancels the tasks itself)
SignalHandlerInline(x, signum) ==
  LET c == CancelAll(x.T, x.R, Ids(x.T)) IN
  [x EXCEPT !.lg = @ \cup {signum}, !.T = c.T, !.R = c.R]
SignalHandler(x, signum) ==
  [x EXCEPT !.lg = @ \cup {signum},
            !.T = Append(@, NewTask("shutdown", "start", "none")),
            !.R = Append(@, StepH(Len(x.T) + 1))]

\* run(): run_until_complete re-raises the root task's exception once the loop
\* has stopped; `except Exception` logs it.
RunExit(T) ==
  LET exc == IF T[Root].st = "cancelled" THEN "cancelled"
             ELSE IF T[Root].st = "failed" THEN "error" ELSE "none"
  IN IF exc = "none" \/ ExceptException(exc) THEN "returned" ELSE "raised"

(***************************************************************************)
(* State machine                                                           *)
(***************************************************************************)

Init ==
  /\ entry \in {"run", "direct"}
  /\ \E n \in 0..(MaxTasks - 1) :
       tasks = <<NewTask(IF entry = "run" THEN "server" ELSE "shutdown", "start", "none")>>
               \o [i \in 1..n |-> NewTask("worker", "waiting", "pending")]
  /\ ready = <<StepH(Root)>>
  /\ ntodo = 0
  /\ loop = "running"
  /\ stopping = FALSE
  /\ shutdown_event = FALSE
  /\ db_session \in (IF entry = "run" THEN {"absent", "open"} ELSE {"absent"})
  /\ serve = "idle"
  /\ cleanupCalls = 0
  /\ cleanupLogged = 0
  /\ closeCalls = 0
  /\ cleanupOutcome = "none"
  /\ logged = {}
  /\ signals = 0
  /\ runResult = "none"

\* The loop takes the callbacks now in the ready queue as this iteration's batch.
BeginIteration ==
  /\ loop = "running" /\ ntodo = 0 /\ ready # <<>>
  /\ ntodo' = Len(ready)
  /\ UNCHANGED <<entry, tasks, ready, loop, stopping, shutdown_event, db_session, serve,
                 cleanupCalls, cleanupLogged, closeCalls, cleanupOutcome, logged, signals,
                 runResult>>

Running(kind, pcs) ==
  /\ loop = "running" /\ ntodo > 0
  /\ Head(ready).h = "step"
  /\ tasks[Head(ready).t].kind = kind
  /\ tasks[Head(ready).t].pc \in pcs

Popped == [Ctx EXCEPT !.R = Tail(ready)]

\* The callback has run: the iteration goes on, or ends; run_forever leaves
\* after an iteration in which stop() was called, and run() then returns or raises.
Advance(x, stop) ==
  /\ Commit(x)
  /\ ntodo' = ntodo - 1
  /\ stopping' = (stopping \/ stop)
  /\ loop' = IF ntodo' = 0 /\ stopping' THEN "stopped" ELSE loop
  /\ runResult' = IF loop' = "stopped" /\ entry = "run" THEN RunExit(x.T) ELSE runResult
  /\ UNCHANGED <<entry, signals>>

StepServer ==
  /\ Running("server", {"start", "serving", "closing"})
  /\ \E so \in {"suspend", "raise"}, cr \in {"ok", "raise", "suspend"}, rel \in BOOLEAN :
       Advance(RunServerStep(Popped, Head(ready).t, so, cr, rel), FALSE)

StepShutdownStart ==
  /\ Running("shutdown", {"start"})
  /\ \E order \in Orders(Enumerate(tasks, Head(ready).t)) :
       Advance(ShutdownStart(Popped, Head(ready).t, order), FALSE)

StepShutdownResume ==
  /\ Running("shutdown", {"waiting"})
  /\ Advance(ShutdownResume(Popped, Head(ready).t), FALSE)

StepWorker ==
  /\ Running("worker", {"start", "waiting", "cancelling"})
  /\ \E beh \in Behaviours : Advance(WorkerStep(Popped, Head(ready).t, beh), FALSE)

GatherCallback ==
  /\ loop = "running" /\ ntodo > 0
  /\ Head(ready).h = "gcb"
  /\ Advance(GatherDoneCallback(Popped, Head(ready).t, Head(ready).c), FALSE)

\* run_until_complete's done-callback on the root task: loop.stop()
StopCallback ==
  /\ loop = "running" /\ ntodo > 0
  /\ Head(ready).h = "stop"
  /\ Advance(Popped, TRUE)

\* The future a task awaits (serve(), close(), a worker's I/O) completes.
IOComplete ==
  /\ loop = "running" /\ ntodo = 0
  /\ \E t \in 1..Len(tasks), res \in {"done", "failed"} :
       /\ tasks[t].waiter = "pending"
       /\ res = "failed" => tasks[t].kind = "server"
       /\ tasks' = [tasks EXCEPT ![t].waiter = res]
       /\ ready' = Append(ready, StepH(t))
  /\ UNCHANGED <<entry, ntodo, loop, stopping, shutdown_event, db_session, serve,
                 cleanupCalls, cleanupLogged, closeCalls, cleanupOutcome, logged, signals,
                 runResult>>

\* SIGINT or SIGTERM is delivered while the loop runs.
Signal ==
  /\ loop = "running" /\ Len(tasks) < MaxTasks
  /\ \E signum \in Signals : Commit(SignalHandler(Ctx, signum))
  /\ signals' = signals + 1
  /\ UNCHANGED <<entry, ntodo, loop, stopping, runResult>>

\* Running code creates a new task.
Spawn ==
  /\ loop = "running" /\ ntodo = 0 /\ Len(tasks) < MaxTasks
  /\ tasks' = Append(tasks, NewTask("worker", "start", "none"))
  /\ ready' = Append(ready, StepH(Len(tasks) + 1))
  /\ UNCHANGED <<entry, ntodo, loop, stopping, shutdown_event, db_session, serve,
                 cleanupCalls, cleanupLogged, closeCalls, cleanupOutcome, logged, signals,
                 runResult>>

Next ==
  \/ BeginIteration
  \/ StepServer
  \/ StepShutdownStart
  \/ StepShutdownResume
  \/ StepWorker
  \/ GatherCallback
  \/ StopCallback
  \/ IOComplete
  \/ Signal
  \/ Spawn

Spec == Init /\ [][Next]_vars

\* The loop keeps running its callbacks while it is not stopped.
LoopSteps ==
  \/ BeginIteration
  \/ StepServer
  \/ StepShutdownStart
  \/ StepShutdownResume
  \/ StepWorker
  \/ GatherCallback
  \/ StopCallback

\* ... and an awaited operation (serve(), close(), a task's I/O) ends at some time.
FairSpec == Spec /\ WF_vars(LoopSteps) /\ WF_vars(IOComplete)

(***************************************************************************)
(* Properties                                                              *)
(***************************************************************************)

ShutdownTasks == {s \in 1..Len(tasks) : tasks[s].kind = "shutdown"}
Enumerated(s) == Range(tasks[s].children)
Released      == db_session \in {"closed", "closed_cancelled"}
ServeEnded    == serve \in {"returned", "raised", "cancelled"}

\* C1: when shutdown_procedures has returned, every task it enumerated is in a
\* terminal state and the Shutdown Event is set.
C1_ShutdownReturnsAfterAllTerminal ==
  \A s \in ShutdownTasks :
    tasks[s].st = "completed" =>
      /\ shutdown_event
      /\ \A t \in Enumerated(s) : Terminal(tasks[t].st)

C1_Witness ==
  \E s \in ShutdownTasks :
    /\ tasks[s].st = "completed"
    /\ Cardinality(Enumerated(s)) >= 2
    /\ \E t \in Enumerated(s) : tasks[t].st = "cancelled"

\* C2: cleanup is invoked at most once, only once the serving loop has ended,
\* and exactly once by the time run_server has finished.
C2_CleanupOnceAfterServing ==
  /\ cleanupCalls <= 1
  /\ cleanupCalls >= 1 => ServeEnded
  /\ (entry = "run" /\ Terminal(tasks[Root].st)) => cleanupCalls = 1

C2_Witness ==
  /\ entry = "run" /\ tasks[Root].st = "cancelled"
  /\ serve = "cancelled" /\ cleanupCalls = 1 /\ signals >= 1

\* C3: a signal delivered while run() serves, with tasks that stop as soon as
\* they are cancelled, leads to the Shutdown Event being set.
C3_SignalLeadsToEvent ==
  (entry = "run" /\ signals >= 1 /\ serve = "running" /\ tasks[Root].waiter = "pending")
    ~> (\/ shutdown_event
        \/ \E t \in 1..Len(tasks) :
             tasks[t].kind = "worker" /\ (tasks[t].st = "failed" \/ tasks[t].pc = "cancelling"))

\* C4: a task that raises on cancellation does not make shutdown_procedures
\* fail: its gather resolves only when all siblings finished, never with the
\* task's error, and the sequence then sets the Shutdown Event.
C4_ErrorSuppression ==
  \A s \in ShutdownTasks :
    /\ tasks[s].st # "failed"
    /\ tasks[s].gst # "error"
    /\ \A c \in Enumerated(s) :
         tasks[c].st = "failed" =>
           /\ tasks[s].gst = "result" => \A t \in Enumerated(s) : Terminal(tasks[t].st)
           /\ tasks[s].st = "completed" => shutdown_event

C4_Witness ==
  \E s \in ShutdownTasks :
    /\ tasks[s].st = "completed" /\ shutdown_event
    /\ \E c, d \in Enumerated(s) : c # d /\ tasks[c].st = "failed"

\* C5 as stated: the handle is closed at most once, and once cleanup has
\* logged completion a present handle has been released.
C5_ReleasedOnceCleanupLogged ==
  /\ closeCalls <= 1
  /\ (db_session # "absent" /\ cleanupLogged >= 1) => Released

\* C5 amended: close() is invoked only by cleanup and at most once; once
\* cleanup has logged completion it has been invoked exactly once, and the
\* handle is released unless that close() raised or was cancelled.
C5_ReleaseAttemptedOnce ==
  /\ closeCalls <= 1
  /\ db_session \notin {"absent", "open"} => (cleanupCalls = 1 /\ closeCalls = 1)
  /\ (db_session # "absent" /\ cleanupLogged >= 1) =>
       /\ closeCalls = 1
       /\ Released \/ db_session \in {"close_failed", "close_cancelled"}
  /\ db_session = "close_cancelled" => cleanupOutcome = "cancelled"
  /\ db_session = "close_failed" => cleanupOutcome = "returned"

C5_Witness ==
  db_session = "close_cancelled" /\ cleanupLogged = 1 /\ serve = "returned"

\* C6: every finished cleanup has logged completion; no error of the release
\* step leaves cleanup (a failed release is logged and cleanup returns); only
\* the cancellation of a suspended close() propagates.
C6_CleanupAlwaysLogs ==
  /\ cleanupOutcome # "raised"
  /\ cleanupOutcome \in {"returned", "cancelled"} => cleanupLogged = cleanupCalls
  /\ cleanupOutcome = "running" => cleanupLogged + 1 = cleanupCalls
  /\ (cleanupCalls >= 1 /\ db_session = "absent") => cleanupOutcome = "returned"
  /\ db_session = "closed" => cleanupOutcome = "returned"
  /\ db_session = "close_failed" =>
       cleanupOutcome = "returned" /\ "error during cleanup" \in logged
  /\ cleanupOutcome = "cancelled" => db_session \in {"close_cancelled", "closed_cancelled"}

C6_Witness ==
  /\ db_session = "close_failed" /\ cleanupOutcome = "returned"
  /\ cleanupLogged = 1 /\ "error during cleanup" \in logged

\* C7: run_server and run() end without an error leaving them.
C7_NothingEscapes ==
  /\ runResult # "raised"
  /\ entry = "run" => tasks[Root].st \in {"pending", "completed"}

\* C8: a signal handler invocation only logs and appends one not yet started
\* shutdown task: no task is touched, nothing is cancelled, the event is left
\* as it is, and before the first sequence starts nothing has been asked to
\* cancel and the event is unset.
C8_HandlerOnlySchedules ==
  [][signals' = signals + 1 =>
       /\ shutdown_event' = shutdown_event
       /\ Len(tasks') = Len(tasks) + 1
       /\ \A t \in 1..Len(tasks) : tasks'[t] = tasks[t]
       /\ tasks'[Len(tasks')] = NewTask("shutdown", "start", "none")
       /\ ready' = Append(ready, StepH(Len(tasks')))
       /\ ntodo' = ntodo /\ loop' = loop
       /\ (entry = "run" /\ signals = 0) =>
            (~shutdown_event' /\ \A t \in 1..Len(tasks') : ~tasks'[t].asked)]_vars

C8_Witness ==
  /\ entry = "run" /\ signals = 1 /\ "SIGTERM" \in logged /\ serve = "running"
  /\ tasks[Len(tasks)].kind = "shutdown" /\ tasks[Len(tasks)].pc = "start"
  /\ ~shutdown_event /\ \A t \in 1..Len(tasks) : ~tasks[t].asked

\* C9: a sequence enumerates once, never itself; every enumerated task has
\* been asked to cancel by the time the sequence waits; only enumerated tasks
\* are ever asked to cancel or waited for.
C9_EnumeratesOnce ==
  /\ [](\A s \in ShutdownTasks :
          /\ s \notin Enumerated(s)
          /\ tasks[s].gleft \subseteq Enumerated(s)
          /\ \A t \in Enumerated(s) : tasks[t].asked)
  /\ [](\A t \in 1..Len(tasks) :
          tasks[t].asked => \E s \in ShutdownTasks : t \in Enumerated(s))
  /\ [][\A s \in 1..Len(tasks) :
          tasks[s].children # <<>> => tasks'[s].children = tasks[s].children]_vars

\* ... and a task created during the wait is still running, never asked to
\* cancel, when the event is set.
C9_Witness ==
  /\ shutdown_event
  /\ \E s \in ShutdownTasks, t \in 1..Len(tasks) :
       /\ tasks[s].st = "completed" /\ Enumerated(s) # {}
       /\ tasks[t].kind = "worker" /\ ~Terminal(tasks[t].st) /\ ~tasks[t].asked
       /\ \A c \in Enumerated(s) : c < t

\* C10: the step that sets the Shutdown Event is taken only when every task
\* enumerated by any sequence is terminal, and the event is never cleared.
C10_EventSetOnlyWhenSettled ==
  [][/\ (~shutdown_event /\ shutdown_event') =>
          \A s \in 1..Len(tasks') : \A t \in Range(tasks'[s].children) :
             Terminal(tasks'[t].st)
     /\ shutdown_event => shutdown_event']_vars

C10_Witness ==
  /\ ~shutdown_event
  /\ \E s1, s2 \in ShutdownTasks :
       /\ s1 # s2 /\ s1 \in Enumerated(s2)
       /\ Enumerated(s1) # {} /\ tasks[s1].st = "cancelled"

====
